---------------------------- MODULE Spec2Model ----------------------------
(***************************************************************************)
(* A model of the rule engine of SysGraph (src/rules/__init__.py): the     *)
(* field resolver, the condition evaluator, the action executor, the rule  *)
(* store with its remote synchronizer, and the orchestrator execute_rules. *)
(*                                                                         *)
(* Python values are tagged records.  A Python string is a sequence of     *)
(* symbols; a symbol is one character, except that an identifier of the    *)
(* snapshot schema or of a rule (hardware, usage_percent, a rule id) is    *)
(* one symbol: no operation of the engine splits an identifier, since it   *)
(* holds neither "." nor "[*]".  Numbers are integers; a float is a whole  *)
(* number with its own tag, so that str() tells 95 from 95.0.              *)
(***************************************************************************)
EXTENDS Integers, Sequences, FiniteSets, TLC

(***************************************************************************)
(* Python values                                                           *)
(***************************************************************************)
PyNone == [t |-> "none"]

PyInt(n) == [t |-> "int", v |-> n]

PyFloat(n) == [t |-> "float", v |-> n]

PyBool(b) == [t |-> "bool", v |-> b]

PyStr(s) == [t |-> "str", v |-> s]

PyList(s) == [t |-> "list", v |-> s]

\* A dict is its items in insertion order, each <<key, value>>; keys are strings.
PyDict(items) == [t |-> "dict", v |-> items]

\* key in d
HasKey(d, key) == \E i \in 1..Len(d.v) : d.v[i][1] = key

\* d[key]
GetKey(d, key) == d.v[CHOOSE i \in 1..Len(d.v) : d.v[i][1] = key][2]

\* isinstance(x, (int, float)): bool is a subclass of int.
IsNumber(x) == x.t \in {"int", "float", "bool"}

\* The numeric value of a number (True is 1, False is 0).
NumVal(x) == IF x.t = "bool" THEN (IF x.v THEN 1 ELSE 0) ELSE x.v

\* bool(x): None, False, zero, and the empty string, list and dict are falsy.
Truthy(x) ==
    CASE x.t = "none" -> FALSE
      [] x.t = "bool" -> x.v
      [] x.t \in {"int", "float"} -> x.v # 0
      [] OTHER -> Len(x.v) > 0

(***************************************************************************)
(* Strings                                                                 *)
(***************************************************************************)
\* s[from:] and s[:to] on sequences
Drop(s, n) == SubSeq(s, n + 1, Len(s))

Take(s, n) == SubSeq(s, 1, n)

\* The least position at which pat occurs in s, or 0: s.find(pat) + 1.
FindSub(s, pat) ==
    LET hits == {i \in 1..(Len(s) - Len(pat) + 1) : SubSeq(s, i, i + Len(pat) - 1) = pat}
    IN  IF hits = {} THEN 0 ELSE CHOOSE i \in hits : \A j \in hits : i <= j

\* pat in s, for strings
Contains(s, pat) == FindSub(s, pat) # 0

\* s.split(sep) for a one-symbol separator: always at least one piece.
RECURSIVE Split(_, _)
Split(s, sep) ==
    LET i == FindSub(s, <<sep>>)
    IN  IF i = 0 THEN <<s>>
        ELSE <<Take(s, i - 1)>> \o Split(Drop(s, i), sep)

Digit(d) == <<"0", "1", "2", "3", "4", "5", "6", "7", "8", "9">>[d + 1]

\* The decimal digits of a natural number.
RECURSIVE Digits(_)
Digits(n) == IF n < 10 THEN <<Digit(n)>> ELSE Digits(n \div 10) \o <<Digit(n % 10)>>

IntStr(n) == IF n < 0 THEN <<"-">> \o Digits(0 - n) ELSE Digits(n)

RECURSIVE Join(_, _)
Join(parts, sep) ==
    IF Len(parts) = 0 THEN <<>>
    ELSE IF Len(parts) = 1 THEN parts[1]
    ELSE parts[1] \o sep \o Join(Tail(parts), sep)

\* str(x) and repr(x).  repr differs from str on strings only (the quotes).
RECURSIVE Str(_)
RECURSIVE Repr(_)
Str(x) ==
    CASE x.t = "none" -> <<"N", "o", "n", "e">>
      [] x.t = "bool" -> IF x.v THEN <<"T", "r", "u", "e">> ELSE <<"F", "a", "l", "s", "e">>
      [] x.t = "int" -> IntStr(x.v)
      [] x.t = "float" -> IntStr(x.v) \o <<".", "0">>
      [] x.t = "str" -> x.v
      [] x.t = "list" ->
           <<"[">> \o Join([i \in 1..Len(x.v) |-> Repr(x.v[i])], <<",", " ">>) \o <<"]">>
      [] x.t = "dict" ->
           <<"{">> \o Join([i \in 1..Len(x.v) |->
                              Repr(PyStr(x.v[i][1])) \o <<":", " ">> \o Repr(x.v[i][2])],
                           <<",", " ">>) \o <<"}">>

Repr(x) == IF x.t = "str" THEN <<"'">> \o x.v \o <<"'">> ELSE Str(x)

DigitSyms == {"0", "1", "2", "3", "4", "5", "6", "7", "8", "9"}

DigitVal(c) == CHOOSE d \in 0..9 : Digit(d) = c

RECURSIVE DigitsVal(_)
DigitsVal(s) == IF Len(s) = 0 THEN 0 ELSE 10 * DigitsVal(Take(s, Len(s) - 1)) + DigitVal(s[Len(s)])

IsDigits(s) == Len(s) > 0 /\ \A i \in 1..Len(s) : s[i] \in DigitSyms

\* A float() that takes None for zero, as float(x or 0) would.
ToFloatNoneAsZero(x) ==
    CASE x.t = "none" -> [ok |-> TRUE, v |-> 0]
      [] IsNumber(x) -> [ok |-> TRUE, v |-> NumVal(x)]
      [] x.t = "str" /\ IsDigits(x.v) -> [ok |-> TRUE, v |-> DigitsVal(x.v)]
      [] OTHER -> [ok |-> FALSE, v |-> 0]

\* float(x).  A number converts (float(True) is 1.0); a string converts when it
\* is a decimal numeral, and raises ValueError otherwise; None, a list and a
\* dict raise TypeError.  The result is [ok, v]: ok is FALSE when float() raises.
\* (The strings of the model hold no exponent, blank, "inf" or "nan".)
ToFloat(x) ==
    CASE IsNumber(x) -> [ok |-> TRUE, v |-> NumVal(x)]
      [] x.t = "str" ->
           IF IsDigits(x.v) THEN [ok |-> TRUE, v |-> DigitsVal(x.v)]
           ELSE IF Len(x.v) > 1 /\ x.v[1] = "-" /\ IsDigits(Tail(x.v))
                THEN [ok |-> TRUE, v |-> 0 - DigitsVal(Tail(x.v))]
           ELSE [ok |-> FALSE, v |-> 0]
      [] OTHER -> [ok |-> FALSE, v |-> 0]

\* a == b.  Numbers compare by value across int, float and bool; strings, lists
\* and dicts compare by content; values of different kinds are unequal.
RECURSIVE PyEq(_, _)
PyEq(a, b) ==
    CASE IsNumber(a) /\ IsNumber(b) -> NumVal(a) = NumVal(b)
      [] IsNumber(a) \/ IsNumber(b) -> FALSE
      [] a.t # b.t -> FALSE
      [] a.t = "none" -> TRUE
      [] a.t = "str" -> a.v = b.v
      [] a.t = "list" ->
           Len(a.v) = Len(b.v) /\ \A i \in 1..Len(a.v) : PyEq(a.v[i], b.v[i])
      [] a.t = "dict" ->
           /\ Len(a.v) = Len(b.v)
           /\ \A i \in 1..Len(a.v) :
                HasKey(b, a.v[i][1]) /\ PyEq(a.v[i][2], GetKey(b, a.v[i][1]))


(***************************************************************************)
(* Field resolver                                                          *)
(***************************************************************************)
Wildcard == <<"[", "*", "]">>

\* _get_nested_value: one dict lookup per dot-separated key; None as soon as
\* the current value is no dict or lacks the key.
RECURSIVE WalkKeys(_, _)
WalkKeys(current, keys) ==
    IF Len(keys) = 0 THEN current
    ELSE IF current.t = "dict" /\ HasKey(current, keys[1])
         THEN WalkKeys(GetKey(current, keys[1]), Tail(keys))
         ELSE PyNone

\* _get_nested_value returning the data it was given for a missing key
GetNestedValueOrData(data, path) ==
    IF WalkKeys(data, Split(path, ".")) = PyNone THEN data
    ELSE WalkKeys(data, Split(path, "."))

GetNestedValue(data, path) == WalkKeys(data, Split(path, "."))

\* base_path, array_field = field_path.split('[*]', 1)
BasePath(field_path) == Take(field_path, FindSub(field_path, Wildcard) - 1)

AfterWildcard(field_path) ==
    Drop(field_path, FindSub(field_path, Wildcard) - 1 + Len(Wildcard))

\* array_field[1:] when array_field starts with a dot
StripDot(array_field) ==
    IF Len(array_field) > 0 /\ array_field[1] = "." THEN Tail(array_field) ELSE array_field

IsDict(item) == item.t = "dict"

\* [self._get_nested_value(item, array_field) for item in ... if isinstance(item, dict)]
MapItems(dicts, array_field) ==
    PyList([i \in 1..Len(dicts) |-> GetNestedValue(dicts[i], array_field)])

\* The wildcard branch of _get_field_value, given the resolved base: a list
\* base is mapped over its dict items (the items that are no dict are left
\* out), or returned as it is when nothing follows "[*]"; a base that is no
\* list gives [].
WildcardValue(base_value, array_field) ==
    IF base_value.t = "list"
    THEN IF Len(array_field) > 0
         THEN MapItems(SelectSeq(base_value.v, IsDict), array_field)
         ELSE base_value
    ELSE PyList(<<>>)

\* _get_field_value
GetFieldValue(data, field_path) ==
    IF Contains(field_path, Wildcard)
    THEN WildcardValue(GetNestedValue(data, BasePath(field_path)),
                       StripDot(AfterWildcard(field_path)))
    ELSE GetNestedValue(data, field_path)

(***************************************************************************)
(* Condition evaluator                                                     *)
(***************************************************************************)
\* sum(values) for a list of numbers
RECURSIVE Sum(_)
Sum(s) == IF Len(s) = 0 THEN 0 ELSE NumVal(s[1]) + Sum(Tail(s))

\* CompareFloats with a float() that raised read as 0.
CompareFloatsRaisedAsZero(a, b, op) ==
    CASE op = ">" -> (IF a.ok THEN a.v ELSE 0) > (IF b.ok THEN b.v ELSE 0)
      [] op = "<" -> (IF a.ok THEN a.v ELSE 0) < (IF b.ok THEN b.v ELSE 0)
      [] op = ">=" -> (IF a.ok THEN a.v ELSE 0) >= (IF b.ok THEN b.v ELSE 0)
      [] op = "<=" -> (IF a.ok THEN a.v ELSE 0) <= (IF b.ok THEN b.v ELSE 0)

\* a <op> b for two results of float(): FALSE when either raised.
CompareFloats(a, b, op) ==
    /\ a.ok
    /\ b.ok
    /\ CASE op = ">" -> a.v > b.v
         [] op = "<" -> a.v < b.v
         [] op = ">=" -> a.v >= b.v
         [] op = "<=" -> a.v <= b.v

\* The comparison made with each item of a list in turn, matching when one
\* item does.
FloatCompareAnyItem(field_value, target_value, op) ==
    IF field_value.t = "list"
    THEN \E i \in 1..Len(field_value.v) :
            CompareFloats(ToFloat(field_value.v[i]), ToFloat(target_value), op)
    ELSE CompareFloats(ToFloat(field_value), ToFloat(target_value), op)

\* float(field_value) <op> float(target_value)
FloatCompare(field_value, target_value, op) ==
    CompareFloats(ToFloat(field_value), ToFloat(target_value), op)

\* target_value in str(field_value): a target that is no string raises TypeError.
EvalContains(field_value, target_value) ==
    target_value.t = "str" /\ Contains(Str(field_value), target_value.v)

\* The count branch with >= for >.
EvalCountAtLeast(field_value, target_value) ==
    /\ field_value.t = "list"
    /\ IsNumber(target_value)
    /\ Len(field_value.v) >= NumVal(target_value)

\* len(field_value) > target_value for a list; an int compares with a number
\* only (anything else raises TypeError).
EvalCount(field_value, target_value) ==
    /\ field_value.t = "list"
    /\ IsNumber(target_value)
    /\ Len(field_value.v) > NumVal(target_value)

\* all_false with item.get(field_check, False): a missing key counted as falsy.
RECURSIVE AllFalseMissingAsFalsy(_, _)
AllFalseMissingAsFalsy(items, field_check) ==
    IF Len(items) = 0 THEN TRUE
    ELSE /\ items[1].t = "dict"
         /\ ~(HasKey(items[1], field_check) /\ Truthy(GetKey(items[1], field_check)))
         /\ AllFalseMissingAsFalsy(Tail(items), field_check)

\* all(not item.get(field_check, True) for item in field_value), left to right:
\* ends FALSE at the first truthy item, and at an item that is no dict (.get
\* raises AttributeError).
RECURSIVE AllFalse(_, _)
AllFalse(items, field_check) ==
    IF Len(items) = 0 THEN TRUE
    ELSE LET item == items[1]
         IN  /\ item.t = "dict"
             /\ HasKey(item, field_check)
             /\ ~Truthy(GetKey(item, field_check))
             /\ AllFalse(Tail(items), field_check)

\* none_true with item.get(field_check, True): a missing key counted as truthy.
RECURSIVE NoneTrueMissingAsTruthy(_, _)
NoneTrueMissingAsTruthy(items, field_check) ==
    IF Len(items) = 0 THEN TRUE
    ELSE /\ items[1].t = "dict"
         /\ HasKey(items[1], field_check)
         /\ ~Truthy(GetKey(items[1], field_check))
         /\ NoneTrueMissingAsTruthy(Tail(items), field_check)

\* not any(item.get(field_check, False) for item in field_value), left to right.
RECURSIVE NoneTrue(_, _)
NoneTrue(items, field_check) ==
    IF Len(items) = 0 THEN TRUE
    ELSE LET item == items[1]
         IN  /\ item.t = "dict"
             /\ ~(HasKey(item, field_check) /\ Truthy(GetKey(item, field_check)))
             /\ NoneTrue(Tail(items), field_check)

\* The numeric elements the avg> branch keeps: isinstance(v, (int, float)).
NumericValues(items) == SelectSeq(items, IsNumber)

\* The avg> branch dividing by len(field_value), the None elements counted.
EvalAvgGtOverAll(field_value, target_value) ==
    /\ Len(NumericValues(field_value.v)) > 0
    /\ IsNumber(target_value)
    /\ Sum(NumericValues(field_value.v)) > NumVal(target_value) * Len(field_value.v)

\* sum(numeric_values) / len(numeric_values) > target_value.  The quotient is
\* compared without dividing: for n > 0, s / n > t iff s > t * n.
EvalAvgGt(field_value, target_value) ==
    LET numeric_values == NumericValues(field_value.v)
    IN  /\ Len(numeric_values) > 0
        /\ IsNumber(target_value)
        /\ Sum(numeric_values) > NumVal(target_value) * Len(numeric_values)

\* The operator of a condition is a Python value; the chain compares it with
\* string literals, each of them one symbol here.  Anything else is unknown.
OpName(operator) ==
    IF operator.t = "str" /\ Len(operator.v) = 1 THEN operator.v[1] ELSE "?"

\* _evaluate_condition: the operator chain; every exception ends unmatched.
\* field_check is None or a string; "and field_check" is its truthiness.
EvaluateCondition(field_value, operator, target_value, field_check) ==
    LET op == OpName(operator)
    IN  CASE op \in {">", "<", ">=", "<="} ->
               FloatCompare(field_value, target_value, op)
          [] op = "==" -> PyEq(field_value, target_value)
          [] op = "!=" -> ~PyEq(field_value, target_value)
          [] op = "contains" -> EvalContains(field_value, target_value)
          [] op = "count" -> EvalCount(field_value, target_value)
          [] op = "all_false" /\ Truthy(field_check) ->
               field_value.t = "list" /\ AllFalse(field_value.v, field_check.v)
          [] op = "none_true" /\ Truthy(field_check) ->
               field_value.t = "list" /\ NoneTrue(field_value.v, field_check.v)
          [] op = "avg>" /\ field_value.t = "list" ->
               EvalAvgGt(field_value, target_value)
          [] OTHER -> FALSE

(***************************************************************************)
(* Rules, conditions and actions                                           *)
(***************************************************************************)
\* A one-symbol string: an identifier, an operator name, a severity.
S(id) == PyStr(<<id>>)

\* d.get(key, default) for a one-symbol key
DictGet(d, key, default) == IF HasKey(d, <<key>>) THEN GetKey(d, <<key>>) ELSE default

\* The condition dicts, as the rule definitions write them.
Cond(field, op, value) ==
    PyDict(<< <<(<<"field">>), PyStr(field)>>, <<(<<"operator">>), S(op)>>,
              <<(<<"value">>), value>> >>)

CondCheck(field, op, field_check) ==
    PyDict(<< <<(<<"field">>), PyStr(field)>>, <<(<<"operator">>), S(op)>>,
              <<(<<"field_check">>), S(field_check)>> >>)

\* {"type": "create_issue", "severity": ..., "message": ...}
CreateIssue(severity, message) ==
    PyDict(<< <<(<<"type">>), S("create_issue")>>, <<(<<"severity">>), severity>>,
              <<(<<"message">>), message>> >>)

\* The Rule model: the fields the engine reads.
Rule(rule_id, category, severity, conditions, actions, enabled, confidence) ==
    [rule_id |-> rule_id, name |-> <<"name_of", rule_id>>, category |-> category,
     description |-> <<"description_of", rule_id>>, severity |-> severity,
     conditions |-> conditions, actions |-> actions, enabled |-> enabled,
     confidence |-> confidence]

\* Confidences are in thousandths: 1.0 is One.
One == 1000

\* Field(default=0.8) of Rule.confidence
DefaultConfidence == 800

\* A built-in rule: one condition, one create_issue action, the defaults for
\* enabled and confidence.
Builtin(rule_id, category, severity, condition) ==
    Rule(rule_id, category, severity, <<condition>>,
         <<CreateIssue(S(severity), S("message"))>>, TRUE, DefaultConfidence)

get_hardware_rules ==
    << Builtin("hw_cpu_high_usage", "hardware", "high",
               Cond(<<"hardware", ".", "cpu", ".", "usage_percent">>, ">", PyInt(90))),
       Builtin("hw_memory_high_usage", "hardware", "high",
               Cond(<<"hardware", ".", "memory", ".", "usage_percent">>, ">", PyInt(90))),
       Builtin("hw_disk_full", "hardware", "critical",
               Cond(<<"hardware", ".", "disks", "[", "*", "]", ".", "usage_percent">>,
                    ">", PyInt(95))),
       Builtin("hw_cpu_temperature_high", "hardware", "high",
               Cond(<<"hardware", ".", "cpu", ".", "temperature">>, ">", PyInt(80))) >>

get_system_rules ==
    << Builtin("sys_uptime_too_long", "system", "medium",
               Cond(<<"system", ".", "system_info", ".", "uptime">>, ">", PyInt(2592000))),
       Builtin("sys_too_many_processes", "system", "medium",
               Cond(<<"system", ".", "processes">>, "count", PyInt(200))),
       Builtin("sys_high_cpu_process", "system", "medium",
               Cond(<<"system", ".", "processes", "[", "*", "]", ".", "cpu_percent">>,
                    ">", PyInt(80))) >>

get_network_rules ==
    << Builtin("net_no_connectivity", "network", "critical",
               CondCheck(<<"network", ".", "connectivity">>, "all_false", "is_reachable")),
       Builtin("net_high_latency", "network", "medium",
               Cond(<<"network", ".", "connectivity", "[", "*", "]", ".", "latency">>,
                    "avg>", PyInt(200))),
       Builtin("net_no_active_interface", "network", "critical",
               CondCheck(<<"network", ".", "interfaces">>, "none_true", "is_up")) >>

get_all_builtin_rules == get_hardware_rules \o get_system_rules \o get_network_rules

(***************************************************************************)
(* Rule execution                                                          *)
(***************************************************************************)
\* The field of a condition resolved against the snapshot dict: a field that
\* is no string makes _get_field_value raise inside its try, which gives None.
ResolveField(condition, snapshot_dict) ==
    LET field == DictGet(condition, "field", PyStr(<<>>))
    IN  IF field.t = "str" THEN GetFieldValue(snapshot_dict, field.v) ELSE PyNone

\* _evaluate_condition on the parts of a condition dict, with the defaults of
\* condition.get.
EvaluateOn(condition, value) ==
    EvaluateCondition(value, DictGet(condition, "operator", S("==")),
                      DictGet(condition, "value", PyNone),
                      DictGet(condition, "field_check", PyNone))

\* What the evidence f-strings say of the condition itself.
Said(condition) ==
    [field |-> DictGet(condition, "field", PyStr(<<>>)),
     operator |-> DictGet(condition, "operator", S("==")),
     value |-> DictGet(condition, "value", PyNone)]

\* The matched flag and the evidence entry of a condition, given the resolved
\* value and the evaluator's answer (the f-string's parts, kept apart).
ConditionEntry(condition, value, hit) ==
    [matched |-> hit,
     evidence |-> IF hit
                  THEN [said |-> Said(condition), outcome |-> "matched", actual |-> PyNone]
                  ELSE [said |-> Said(condition), outcome |-> "unmatched", actual |-> value]]

EvaluateResolved(condition, value) ==
    ConditionEntry(condition, value, EvaluateOn(condition, value))

\* One pass of the loop of _check_conditions.
CheckCondition(condition, snapshot_dict) ==
    EvaluateResolved(condition, ResolveField(condition, snapshot_dict))

\* all_matched starting False and set by any matched condition.
AllMatchedAny(entries) ==
    [matched |-> \E i \in 1..Len(entries) : entries[i].matched,
     evidence |-> [i \in 1..Len(entries) |-> entries[i].evidence]]

\* all_matched starts True and every unmatched condition clears it; every
\* condition leaves one evidence entry.
AllMatched(entries) ==
    [matched |-> \A i \in 1..Len(entries) : entries[i].matched,
     evidence |-> [i \in 1..Len(entries) |-> entries[i].evidence]]

\* _check_conditions
CheckConditions(conditions, snapshot_dict) ==
    AllMatched([i \in 1..Len(conditions) |-> CheckCondition(conditions[i], snapshot_dict)])

\* DiagnosisIssue validates its str fields: a value that is no string is
\* rejected with a ValidationError.
IssueFieldsValid(severity, description, recommendation) ==
    severity.t = "str" /\ description.t = "str" /\ recommendation.t = "str"

\* _execute_action raising on an action type it does not know.
ExecuteActionUnknownRaises(action, rule, evidence) ==
    IF DictGet(action, "type", PyStr(<<>>)) = S("create_issue")
    THEN IF IssueFieldsValid(DictGet(action, "severity", S(rule.severity)),
                             DictGet(action, "message", PyStr(rule.description)),
                             DictGet(action, "recommendation", S("check_category")))
         THEN [raised |-> FALSE,
               description |-> <<"create_issue", rule.name>>,
               issue |-> <<[category |-> rule.category,
                            severity |-> DictGet(action, "severity", S(rule.severity)),
                            title |-> rule.name,
                            description |-> DictGet(action, "message", PyStr(rule.description)),
                            recommendation |-> DictGet(action, "recommendation", S("check_category")),
                            confidence |-> rule.confidence,
                            evidence |-> evidence]>>]
         ELSE [raised |-> TRUE, description |-> <<>>, issue |-> <<>>]
    ELSE IF DictGet(action, "type", PyStr(<<>>)) = S("log")
    THEN [raised |-> FALSE,
          description |-> <<"log", DictGet(action, "message", PyStr(rule.name))>>,
          issue |-> <<>>]
    ELSE [raised |-> TRUE, description |-> <<>>, issue |-> <<>>]

\* _execute_action giving the issue the boosted confidence and the severity
\* of the rule.
ExecuteActionOfResult(action, rule, evidence) ==
    IF DictGet(action, "type", PyStr(<<>>)) = S("create_issue")
    THEN IF IssueFieldsValid(DictGet(action, "severity", S(rule.severity)),
                             DictGet(action, "message", PyStr(rule.description)),
                             DictGet(action, "recommendation", S("check_category")))
         THEN [raised |-> FALSE,
               description |-> <<"create_issue", rule.name>>,
               issue |-> <<[category |-> rule.category,
                            severity |-> S(rule.severity),
                            title |-> rule.name,
                            description |-> DictGet(action, "message", PyStr(rule.description)),
                            recommendation |-> DictGet(action, "recommendation", S("check_category")),
                            confidence |-> IF rule.confidence * 11 < One * 10
                                           THEN (rule.confidence * 11) \div 10 ELSE One,
                            evidence |-> evidence]>>]
         ELSE [raised |-> TRUE, description |-> <<>>, issue |-> <<>>]
    ELSE IF DictGet(action, "type", PyStr(<<>>)) = S("log")
    THEN [raised |-> FALSE,
          description |-> <<"log", DictGet(action, "message", PyStr(rule.name))>>,
          issue |-> <<>>]
    ELSE [raised |-> FALSE,
          description |-> <<"unknown", DictGet(action, "type", PyStr(<<>>))>>,
          issue |-> <<>>]

\* _execute_action: [raised, description, issue]; issue is <<>> when the action
\* makes none, and <<the issue>> otherwise.
ExecuteAction(action, rule, evidence) ==
    LET action_type == DictGet(action, "type", PyStr(<<>>))
        severity == DictGet(action, "severity", S(rule.severity))
        description == DictGet(action, "message", PyStr(rule.description))
        recommendation == DictGet(action, "recommendation", S("check_category"))
    IN  IF action_type = S("create_issue")
        THEN IF IssueFieldsValid(severity, description, recommendation)
             THEN [raised |-> FALSE,
                   description |-> <<"create_issue", rule.name>>,
                   issue |-> <<[category |-> rule.category, severity |-> severity,
                                title |-> rule.name, description |-> description,
                                recommendation |-> recommendation,
                                confidence |-> rule.confidence,
                                evidence |-> evidence]>>]
             ELSE [raised |-> TRUE, description |-> <<>>, issue |-> <<>>]
        ELSE IF action_type = S("log")
        THEN [raised |-> FALSE,
              description |-> <<"log", DictGet(action, "message", PyStr(rule.name))>>,
              issue |-> <<>>]
        ELSE [raised |-> FALSE, description |-> <<"unknown", action_type>>, issue |-> <<>>]

\* The loop over rule.actions of _execute_single_rule, from action number i:
\* it stops at the first action that raises.  calls numbers the actions that
\* _execute_action was called with.
RECURSIVE RunActions(_, _, _, _)
RunActions(rule, evidence, i, acc) ==
    IF i > Len(rule.actions) THEN acc
    ELSE LET action_result == ExecuteAction(rule.actions[i], rule, evidence)
         IN  IF action_result.raised
             THEN [acc EXCEPT !.raised = TRUE, !.calls = Append(@, i)]
             ELSE RunActions(rule, evidence, i + 1,
                             [acc EXCEPT !.calls = Append(@, i),
                                         !.actions_taken = Append(@, action_result.description),
                                         !.issues_found = @ \o action_result.issue])

NoActions == [raised |-> FALSE, calls |-> <<>>, actions_taken |-> <<>>, issues_found |-> <<>>]

\* The boost without its cap.
BoostedUncapped(confidence) == (confidence * 11) \div 10

\* min(1.0, confidence * 1.1), in thousandths
Boosted(confidence) ==
    LET product == (confidence * 11) \div 10
    IN  IF product < One THEN product ELSE One

\* The boost applied from the threshold on (>= for >).
ResultConfidenceAtLeast(rule, matched, config) ==
    IF matched /\ rule.confidence >= config.rule_confidence_threshold
    THEN (IF (rule.confidence * 11) \div 10 < One THEN (rule.confidence * 11) \div 10 ELSE One)
    ELSE IF matched THEN rule.confidence ELSE 0

\* The confidence of a result: the rule's when matched, else 0.0, and boosted
\* when matched with a rule confidence above the configured threshold.
ResultConfidence(rule, matched, config) ==
    IF matched /\ rule.confidence > config.rule_confidence_threshold
    THEN Boosted(rule.confidence)
    ELSE IF matched THEN rule.confidence ELSE 0

\* The RuleExecutionResult of _execute_single_rule, with what the condition
\* check and the action loop left: [raised, conditions_matched, calls, result].
SingleResult(rule, checked, acted, config) ==
    [raised |-> acted.raised,
     conditions_matched |-> checked.matched,
     calls |-> acted.calls,
     result |-> [rule_id |-> rule.rule_id,
                 matched |-> checked.matched,
                 confidence |-> ResultConfidence(rule, checked.matched, config),
                 evidence |-> checked.evidence,
                 actions_taken |-> acted.actions_taken,
                 issues_found |-> acted.issues_found]]

\* The actions run only when the conditions matched.
ActOn(rule, checked, config) ==
    SingleResult(rule, checked,
                 IF checked.matched THEN RunActions(rule, checked.evidence, 1, NoActions)
                 ELSE NoActions,
                 config)

\* _execute_single_rule.  An exception of an action is logged and raised again.
ExecuteSingleRule(rule, snapshot_dict, config) ==
    ActOn(rule, CheckConditions(rule.conditions, snapshot_dict), config)

\* The result execute_rules appends for a rule whose execution raised.
FailedResult(rule) ==
    [rule_id |-> rule.rule_id, matched |-> FALSE, confidence |-> 0, evidence |-> <<>>,
     actions_taken |-> <<>>, issues_found |-> <<>>]

\* get_all_rules without its filter on enabled.
GetAllRulesUnfiltered(config, builtin, remote) ==
    (IF config.enable_builtin_rules THEN builtin ELSE <<>>)
    \o (IF config.enable_remote_rules THEN remote ELSE <<>>)

\* get_all_rules: the built-in rules, then the remote rules, each under its
\* configuration flag; then the enabled ones.
GetAllRules(config, builtin, remote) ==
    LET all_rules == (IF config.enable_builtin_rules THEN builtin ELSE <<>>)
                     \o (IF config.enable_remote_rules THEN remote ELSE <<>>)
    IN  SelectSeq(all_rules, LAMBDA rule : rule.enabled)

\* What execute_rules appends for one rule, given how _execute_single_rule
\* ended: its result, or the failed result when it raised.  calls are the
\* numbers of the actions _execute_action was called with.
Appended(rule, single) ==
    [result |-> IF single.raised THEN FailedResult(rule) ELSE single.result,
     conditions_matched |-> single.conditions_matched,
     calls |-> single.calls]

\* The body of the loop of execute_rules for one rule.
RuleOutcome(rule, snapshot_dict, config) ==
    Appended(rule, ExecuteSingleRule(rule, snapshot_dict, config))

\* execute_rules without the try around one rule: the first exception reaches
\* the outer handler, which returns [].
ExecuteRulesNoIsolation(config, builtin, remote, snapshot_dict) ==
    IF \E i \in 1..Len(GetAllRules(config, builtin, remote)) :
         ExecuteSingleRule(GetAllRules(config, builtin, remote)[i], snapshot_dict, config).raised
    THEN <<>>
    ELSE [i \in 1..Len(GetAllRules(config, builtin, remote)) |->
            RuleOutcome(GetAllRules(config, builtin, remote)[i], snapshot_dict, config)]

\* execute_rules: one outcome per rule of get_all_rules, in its order.
ExecuteRules(config, builtin, remote, snapshot_dict) ==
    LET rules == GetAllRules(config, builtin, remote)
    IN  [i \in 1..Len(rules) |-> RuleOutcome(rules[i], snapshot_dict, config)]

(***************************************************************************)
(* Remote rule files                                                       *)
(***************************************************************************)
\* A cached rule file after json.load / yaml.safe_load: kind is "list" (a
\* flat list of rule records), "rules" (an object with a rules list), "other"
\* (any other document) or "invalid" (the parser raises).  A record is a Rule
\* (it validates) or BadRecord (Rule(**rule_data) raises).
BadRecord == [rule_id |-> "?", invalid |-> TRUE]

RuleFile(kind, records) == [kind |-> kind, records |-> records]

\* The rules one file adds: the records before the first bad one, since the
\* exception leaves the loop over the file's records.
RECURSIVE ValidPrefix(_)
ValidPrefix(records) ==
    IF Len(records) = 0 \/ records[1] = BadRecord THEN <<>>
    ELSE <<records[1]>> \o ValidPrefix(Tail(records))

ParseRuleFile(file) ==
    IF file.kind \in {"list", "rules"} THEN ValidPrefix(file.records) ELSE <<>>

\* The loop over rule_files of _load_cached_remote_rules.
RECURSIVE ParseRuleFiles(_)
ParseRuleFiles(files) ==
    IF Len(files) = 0 THEN <<>>
    ELSE ParseRuleFile(files[1]) \o ParseRuleFiles(Tail(files))

\* No directory remote_repo under the cache directory.
NoRepo == [exists |-> FALSE, files |-> <<>>]

Repo(files) == [exists |-> TRUE, files |-> files]

\* _load_cached_remote_rules returning before it reads a file.
LoadCachedKeepsPrevious(repo, remote) == remote

\* _load_cached_remote_rules appending to the rules it holds.
LoadCachedMerges(repo, remote) ==
    IF ~repo.exists THEN remote ELSE remote \o ParseRuleFiles(repo.files)

\* _load_cached_remote_rules: the new value of self.remote_rules.
LoadCachedRemoteRules(repo, remote) ==
    IF ~repo.exists THEN remote ELSE ParseRuleFiles(repo.files)

LogAction(message) == PyDict(<< <<(<<"type">>), S("log")>>, <<(<<"message">>), message>> >>)

\* Remote rules of the model.
RemoteAlways ==
    Rule("remote_always", "system", "low", <<>>,
         <<LogAction(S("fired")), CreateIssue(S("high"), S("message"))>>, TRUE, 900)

RemoteDisabled ==
    Rule("remote_disabled", "system", "low", <<>>,
         <<CreateIssue(S("low"), S("message"))>>, FALSE, 900)

\* Its second action has a null message ("message:" in YAML): DiagnosisIssue
\* rejects it.
RemoteBroken ==
    Rule("remote_broken", "network", "medium", <<>>,
         <<LogAction(S("fired")), CreateIssue(S("medium"), PyNone),
           CreateIssue(S("medium"), S("message"))>>, TRUE, 950)

\* Two conditions, an action of an unknown kind, a create_issue with no
\* severity of its own.
RemoteSure ==
    Rule("remote_sure", "hardware", "critical",
         << Cond(<<"hardware", ".", "cpu", ".", "usage_percent">>, ">=", PyInt(90)),
            Cond(<<"hardware", ".", "cpu", ".", "temperature">>, ">", PyInt(80)) >>,
         << PyDict(<< <<(<<"type">>), S("notify")>> >>),
            PyDict(<< <<(<<"type">>), S("create_issue")>> >>) >>, TRUE, 950)

RemoteEqual ==
    Rule("remote_equal", "hardware", "low",
         << Cond(<<"hardware", ".", "memory", ".", "usage_percent">>, "<", PyInt(60)) >>,
         <<CreateIssue(S("low"), S("message"))>>, TRUE, 500)

\* Two conditions, and one action with a null message.
RemoteFragile ==
    Rule("remote_fragile", "hardware", "low",
         << Cond(<<"hardware", ".", "cpu", ".", "temperature">>, ">", PyInt(80)),
            Cond(<<"hardware", ".", "memory", ".", "usage_percent">>, ">", PyInt(55)) >>,
         <<CreateIssue(S("low"), PyNone)>>, TRUE, 500)

\* A remote rule with the rule_id of a built-in rule.
RemoteShadow ==
    Rule("hw_cpu_high_usage", "hardware", "low", <<>>,
         <<CreateIssue(S("low"), S("message"))>>, TRUE, 700)

\* A remote rule with a severity and a confidence of its own kind: Rule
\* declares severity: str and confidence: float, with no constraint.
RemoteWild ==
    Rule("remote_wild", "system", "urgent", <<>>,
         <<PyDict(<< <<(<<"type">>), S("create_issue")>> >>)>>, TRUE, 0 - 200)

\* The contents the repository directory can have.
RepoVersions ==
    { Repo(<< RuleFile("rules", <<RemoteBroken>>),
              RuleFile("list", <<RemoteDisabled, RemoteAlways>>) >>),
      Repo(<< RuleFile("list", <<RemoteSure, RemoteEqual>>),
              RuleFile("invalid", <<>>),
              RuleFile("rules", <<RemoteAlways, RemoteFragile>>) >>) }

(***************************************************************************)
(* Snapshots: SystemSnapshot.dict(), the fields the rules address          *)
(***************************************************************************)
Entry(key, value) == <<(<<key>>), value>>

DiskInfo(usage_percent) == PyDict(<<Entry("usage_percent", usage_percent)>>)

ProcessInfo(cpu_percent) == PyDict(<<Entry("cpu_percent", cpu_percent)>>)

NetworkInterface(is_up) == PyDict(<<Entry("is_up", PyBool(is_up))>>)

NetworkConnectivity(is_reachable, latency) ==
    PyDict(<<Entry("is_reachable", PyBool(is_reachable)), Entry("latency", latency)>>)

SystemSnapshot(usage, temperature, memory, disks, uptime, processes, interfaces, connectivity) ==
    PyDict(<<
      Entry("hardware", PyDict(<<
        Entry("cpu", PyDict(<<Entry("usage_percent", usage), Entry("temperature", temperature)>>)),
        Entry("memory", PyDict(<<Entry("usage_percent", memory)>>)),
        Entry("disks", PyList(disks)) >>)),
      Entry("system", PyDict(<<
        Entry("system_info", PyDict(<<Entry("uptime", uptime)>>)),
        Entry("processes", PyList(processes)) >>)),
      Entry("network", PyDict(<<
        Entry("interfaces", PyList(interfaces)),
        Entry("connectivity", PyList(connectivity)) >>)) >>)

\* n processes
Processes(n, cpu_percent) == [i \in 1..n |-> ProcessInfo(PyFloat(cpu_percent))]

\* The snapshots of the model: a healthy machine; a loaded one; one with no
\* network; one on the thresholds of the built-in rules.
Snapshots ==
    << SystemSnapshot(PyFloat(10), PyNone, PyFloat(50), <<DiskInfo(PyFloat(50))>>,
                      PyFloat(100), Processes(2, 5), <<NetworkInterface(TRUE)>>,
                      <<NetworkConnectivity(TRUE, PyFloat(20))>>),
       SystemSnapshot(PyFloat(95), PyFloat(85), PyFloat(91), <<DiskInfo(PyFloat(99))>>,
                      PyFloat(3000000), Processes(3, 90), <<NetworkInterface(TRUE)>>,
                      <<NetworkConnectivity(TRUE, PyFloat(300)),
                        NetworkConnectivity(TRUE, PyNone)>>),
       SystemSnapshot(PyFloat(10), PyNone, PyFloat(50), <<>>,
                      PyFloat(100), Processes(1, 0), <<NetworkInterface(FALSE)>>,
                      <<NetworkConnectivity(FALSE, PyNone),
                        NetworkConnectivity(FALSE, PyNone)>>),
       SystemSnapshot(PyFloat(90), PyFloat(80), PyFloat(60), <<DiskInfo(PyFloat(95))>>,
                      PyFloat(2592000), Processes(2, 80), <<>>, <<>>) >>

SnapshotIds == 1..Len(Snapshots)

(***************************************************************************)
(* The engine                                                              *)
(***************************************************************************)
VARIABLES
    constructed,         \* RuleEngine(config): "no" before, then "yes", or "raised"
    config,              \* self.config, shared with the configuration manager
    builtin_rules,       \* self.builtin_rules
    remote_rules,        \* self.remote_rules
    last_remote_update,  \* self._last_remote_update: "none" or "set"
    elapsed,             \* datetime.now() - self._last_remote_update, in days
    repo,                \* the directory remote_repo under the cache directory
    sync_pc,             \* the task _load_remote_rules: idle, scheduled, fetching, done
    fetch,               \* how the fetch step of its cycle went: none, skipped, ok, status, raised
    before,              \* <<what the engine and the cache held when the cycle began>>
    run,                 \* the snapshot execute_rules was just called with, or 0
    results,             \* the list that call returned
    conditions_matched,  \* per result, the flag _check_conditions returned
    calls,               \* per result, the actions _execute_action was called with
    repeat,              \* the confidences the call before returned, for the same snapshot
    run_pc,              \* a call of execute_rules taken await by await: idle, running
    run_snapshot,        \* the snapshot it was called with, or 0
    run_rules,           \* its local rules
    execution_results,   \* its local execution_results, with what each rule left
    check_pc,            \* one condition check on its own: idle, ready, done
    check_data,          \* the snapshot dict it reads
    check_condition,     \* the condition dict
    field_value,         \* what _get_field_value returned
    matched              \* what _evaluate_condition returned

run_vars == <<run_pc, run_snapshot, run_rules, execution_results>>

engine_vars == <<constructed, config, builtin_rules, remote_rules, last_remote_update, elapsed, repo,
                 sync_pc, fetch, before, run, results, conditions_matched, calls, repeat,
                 run_pc, run_snapshot, run_rules, execution_results>>

\* rule_confidence_threshold: the default 0.8, and a lower one
Thresholds == {800, 500}

\* rules_update_interval: the default, 86400 seconds, is one day
UpdateInterval == 1

\* The longest time since the last update that the model tells apart, in days
MaxElapsed == 2

Configurations ==
    [enable_builtin_rules : BOOLEAN, enable_remote_rules : BOOLEAN,
     rules_update_interval : {UpdateInterval},
     rule_confidence_threshold : Thresholds]

check_vars == <<check_pc, check_data, check_condition, field_value, matched>>

vars == <<constructed, config, builtin_rules, remote_rules, last_remote_update, elapsed, repo,
          sync_pc, fetch, before, run, results, conditions_matched, calls, repeat,
          run_pc, run_snapshot, run_rules, execution_results,
          check_pc, check_data, check_condition, field_value, matched>>

\* The results belong to the caller: run, results, conditions_matched, calls
\* and repeat describe the call of execute_rules just made, and any other step
\* of the engine forgets them.  run = 0 says that the last step was no call.
Forget ==
    /\ run' = 0
    /\ results' = <<>>
    /\ conditions_matched' = <<>>
    /\ calls' = <<>>
    /\ repeat' = <<>>

\* No call of execute_rules is under way.
NoRun ==
    /\ run_pc = "idle"
    /\ run_snapshot = 0
    /\ run_rules = <<>>
    /\ execution_results = <<>>

NoCheck ==
    /\ check_pc = "idle"
    /\ check_data = PyNone
    /\ check_condition = PyNone
    /\ field_value = PyNone
    /\ matched = FALSE

\* RuleEngine.__init__: the built-in rules are loaded when enabled, and the
\* task loading the remote rules is created when enabled.  The cache directory
\* is as an earlier process left it.
Init ==
    /\ constructed = "yes"
    /\ config \in Configurations
    /\ builtin_rules = IF config.enable_builtin_rules THEN get_all_builtin_rules ELSE <<>>
    /\ remote_rules = <<>>
    /\ last_remote_update = "none"
    /\ elapsed = 0
    /\ repo \in {NoRepo} \cup RepoVersions
    /\ sync_pc = IF config.enable_remote_rules THEN "scheduled" ELSE "idle"
    /\ fetch = "none"
    /\ before = <<>>
    /\ NoRun
    /\ run = 0
    /\ results = <<>>
    /\ conditions_matched = <<>>
    /\ calls = <<>>
    /\ repeat = <<>>
    /\ NoCheck

\* _should_update_remote_rules answering True from the interval on (>= for >).
ShouldUpdateAtInterval ==
    last_remote_update = "none" \/ elapsed >= config.rules_update_interval

\* _should_update_remote_rules
ShouldUpdateRemoteRules ==
    last_remote_update = "none" \/ elapsed > config.rules_update_interval

\* What the engine and the cache hold as a cycle of _load_remote_rules begins.
Begun ==
    <<[remote_rules |-> remote_rules, repo |-> repo,
       last_remote_update |-> last_remote_update]>>

\* _load_remote_rules up to its first suspension: the fetch starts a git
\* subprocess and awaits it.
LoadRemoteRulesStart ==
    /\ sync_pc = "scheduled"
    /\ ShouldUpdateRemoteRules
    /\ sync_pc' = "fetching"
    /\ before' = Begun
    /\ fetch' = "none"
    /\ Forget
    /\ UNCHANGED <<config, builtin_rules, remote_rules, last_remote_update, elapsed, repo>>
    /\ UNCHANGED run_vars
    /\ UNCHANGED <<constructed, check_vars>>

\* _load_remote_rules returning at once when no update is due, the cache
\* not loaded.
SkipFetchAndLoad ==
    /\ sync_pc = "scheduled"
    /\ ~ShouldUpdateRemoteRules
    /\ sync_pc' = "done"
    /\ before' = Begun
    /\ fetch' = "skipped"
    /\ Forget
    /\ UNCHANGED <<config, builtin_rules, remote_rules, last_remote_update, elapsed, repo>>
    /\ UNCHANGED run_vars
    /\ UNCHANGED <<constructed, check_vars>>

\* _load_remote_rules when no update is due: the fetch is skipped and the
\* cache is loaded, with no suspension on the way.
SkipFetch ==
    /\ sync_pc = "scheduled"
    /\ ~ShouldUpdateRemoteRules
    /\ remote_rules' = LoadCachedRemoteRules(repo, remote_rules)
    /\ sync_pc' = "done"
    /\ before' = Begun
    /\ fetch' = "skipped"
    /\ Forget
    /\ UNCHANGED <<config, builtin_rules, last_remote_update, elapsed, repo>>
    /\ UNCHANGED run_vars
    /\ UNCHANGED <<constructed, check_vars>>

\* The subprocess ends with status 0: the repository directory holds the
\* fetched version, the timestamp is set, and the cache is loaded.
FetchSucceeds ==
    /\ sync_pc = "fetching"
    /\ \E fetched \in RepoVersions :
         /\ repo' = fetched
         /\ remote_rules' = LoadCachedRemoteRules(fetched, remote_rules)
    /\ last_remote_update' = "set"
    /\ elapsed' = 0
    /\ sync_pc' = "done"
    /\ fetch' = "ok"
    /\ Forget
    /\ UNCHANGED <<config, builtin_rules, before>>
    /\ UNCHANGED run_vars
    /\ UNCHANGED <<constructed, check_vars>>

\* The subprocess ends with another status, or awaiting it raises: the error
\* is logged, and the cache is loaded as it is.
FetchFails ==
    /\ sync_pc = "fetching"
    /\ remote_rules' = LoadCachedRemoteRules(repo, remote_rules)
    /\ sync_pc' = "done"
    /\ fetch' \in {"status", "raised"}
    /\ Forget
    /\ UNCHANGED <<config, builtin_rules, last_remote_update, elapsed, repo, before>>
    /\ UNCHANGED run_vars
    /\ UNCHANGED <<constructed, check_vars>>

\* A day passes since the last update.
Tick ==
    /\ last_remote_update = "set"
    /\ elapsed < MaxElapsed
    /\ elapsed' = elapsed + 1
    /\ Forget
    /\ UNCHANGED <<config, builtin_rules, remote_rules, last_remote_update, repo,
                   sync_pc, fetch, before>>
    /\ UNCHANGED run_vars
    /\ UNCHANGED <<constructed, check_vars>>

\* What the caller of execute_rules holds when it returns.
Returned(sid, outcomes) ==
    /\ results' = [i \in 1..Len(outcomes) |-> outcomes[i].result]
    /\ conditions_matched' = [i \in 1..Len(outcomes) |-> outcomes[i].conditions_matched]
    /\ calls' = [i \in 1..Len(outcomes) |-> outcomes[i].calls]
    /\ run' = sid
    /\ repeat' = IF run = sid THEN <<[i \in 1..Len(results) |-> results[i].confidence]>>
                 ELSE <<>>

\* execute_rules(snapshot)
ExecuteRulesCall(sid) ==
    /\ constructed = "yes"
    /\ run_pc = "idle"
    /\ Returned(sid, ExecuteRules(config, builtin_rules, remote_rules, Snapshots[sid]))
    /\ UNCHANGED <<config, builtin_rules, remote_rules, last_remote_update, elapsed, repo,
                   sync_pc, fetch, before>>
    /\ UNCHANGED run_vars
    /\ UNCHANGED <<constructed, check_vars>>

\* ConfigManager.set_value on a key of the rules section: setattr on the
\* configuration object the engine holds.
SetValue(key, value) ==
    /\ constructed = "yes"
    /\ config' = [config EXCEPT ![key] = value]
    /\ config' # config
    /\ Forget
    /\ UNCHANGED <<builtin_rules, remote_rules, last_remote_update, elapsed, repo,
                   sync_pc, fetch, before>>
    /\ UNCHANGED run_vars
    /\ UNCHANGED <<constructed, check_vars>>

Next ==
    \/ LoadRemoteRulesStart
    \/ FetchSucceeds
    \/ FetchFails
    \/ Tick
    \/ \E sid \in SnapshotIds : ExecuteRulesCall(sid)
    \/ \E flag \in {"enable_builtin_rules", "enable_remote_rules"}, value \in BOOLEAN :
         SetValue(flag, value)

Spec == Init /\ [][Next]_vars

(***************************************************************************)
(* The engine from before its construction                                 *)
(***************************************************************************)
BuildInit ==
    /\ constructed = "no"
    /\ config \in Configurations
    /\ builtin_rules = <<>>
    /\ remote_rules = <<>>
    /\ last_remote_update = "none"
    /\ elapsed = 0
    /\ repo \in {NoRepo} \cup RepoVersions
    /\ sync_pc = "idle"
    /\ fetch = "none"
    /\ before = <<>>
    /\ run = 0
    /\ results = <<>>
    /\ conditions_matched = <<>>
    /\ calls = <<>>
    /\ repeat = <<>>
    /\ NoRun
    /\ NoCheck

\* RuleEngine(config), called with an event loop running in the thread or
\* with none: the built-in rules are loaded when enabled, and then, when the
\* remote rules are enabled, asyncio.create_task is called, which raises
\* RuntimeError when no event loop is running.
Construct ==
    /\ constructed = "no"
    /\ builtin_rules' = IF config.enable_builtin_rules THEN get_all_builtin_rules ELSE <<>>
    /\ \E loop_running \in BOOLEAN :
         IF config.enable_remote_rules /\ ~loop_running
         THEN constructed' = "raised" /\ sync_pc' = "idle"
         ELSE /\ constructed' = "yes"
              /\ sync_pc' = IF config.enable_remote_rules THEN "scheduled" ELSE "idle"
    /\ UNCHANGED <<config, remote_rules, last_remote_update, elapsed, repo, fetch, before,
                   run, results, conditions_matched, calls, repeat>>
    /\ UNCHANGED run_vars
    /\ UNCHANGED check_vars

BuildNext == Construct \/ Next

BuildSpec == BuildInit /\ [][BuildNext]_vars

\* The event loop runs the task it was given, the git subprocess ends, and
\* time passes.
FairSpec ==
    /\ Spec
    /\ WF_vars(LoadRemoteRulesStart)
    /\ WF_vars(FetchSucceeds \/ FetchFails)
    /\ WF_vars(Tick)

(***************************************************************************)
(* One cycle of _load_remote_rules on an engine that has run for a while,  *)
(* with a call of execute_rules taken await by await.  The awaits of       *)
(* execute_rules do not suspend as the code stands; taking each of them as *)
(* a point where the cycle can run covers every schedule.                  *)
(***************************************************************************)
\* What the cache directory can hold when the cycle begins.
CachedRepos ==
    {NoRepo} \cup RepoVersions \cup
    { Repo(<< RuleFile("list", <<RemoteEqual>>),
              RuleFile("invalid", <<>>),
              RuleFile("rules", <<RemoteAlways>>) >>),
      Repo(<< RuleFile("list", <<RemoteEqual, BadRecord, RemoteSure>>),
              RuleFile("other", <<>>),
              RuleFile("rules", <<RemoteAlways>>) >>),
      Repo(<< RuleFile("list", <<RemoteEqual, RemoteWild>>),
              RuleFile("rules", <<RemoteShadow, RemoteEqual>>) >>) }

\* What self.remote_rules can hold from the loads before.
LoadedBefore ==
    {<<>>, <<RemoteEqual>>} \cup {ParseRuleFiles(r.files) : r \in RepoVersions}

SyncInit ==
    /\ constructed = "yes"
    /\ config \in {c \in Configurations :
                      c.enable_remote_rules /\ c.rule_confidence_threshold = 800}
    /\ builtin_rules = IF config.enable_builtin_rules THEN get_all_builtin_rules ELSE <<>>
    /\ remote_rules \in LoadedBefore
    /\ last_remote_update \in {"none", "set"}
    /\ elapsed \in 0..MaxElapsed
    /\ last_remote_update = "none" => elapsed = 0
    /\ repo \in CachedRepos
    /\ sync_pc = "scheduled"
    /\ fetch = "none"
    /\ before = <<>>
    /\ run = 0
    /\ results = <<>>
    /\ conditions_matched = <<>>
    /\ calls = <<>>
    /\ repeat = <<>>
    /\ NoRun
    /\ NoCheck

\* The loop of execute_rules reading the lists of the engine at each pass.
RulesOfRunLive(local, config_now, builtin_now, remote_now) ==
    GetAllRules(config_now, builtin_now, remote_now)

\* The list the loop of execute_rules goes through: its local rules, what
\* get_all_rules returned when the call began, not the lists of the engine.
RulesOfRun(local, config_now, builtin_now, remote_now) == local

\* rules = self.get_all_rules(); execution_results = []
RunStart(sid) ==
    /\ constructed = "yes"
    /\ run_pc = "idle"
    /\ run_pc' = "running"
    /\ run_snapshot' = sid
    /\ run_rules' = GetAllRules(config, builtin_rules, remote_rules)
    /\ execution_results' = <<>>
    /\ Forget
    /\ UNCHANGED <<config, builtin_rules, remote_rules, last_remote_update, elapsed, repo,
                   sync_pc, fetch, before>>
    /\ UNCHANGED <<constructed, check_vars>>

\* One pass of the loop: await self._execute_single_rule(rule, snapshot), and
\* the result, or the zero result, appended.
RunRule ==
    /\ run_pc = "running"
    /\ Len(execution_results)
         < Len(RulesOfRun(run_rules, config, builtin_rules, remote_rules))
    /\ execution_results' =
         Append(execution_results,
                RuleOutcome(RulesOfRun(run_rules, config, builtin_rules, remote_rules)
                               [Len(execution_results) + 1],
                            Snapshots[run_snapshot], config))
    /\ UNCHANGED <<config, builtin_rules, remote_rules, last_remote_update, elapsed, repo,
                   sync_pc, fetch, before, run, results, conditions_matched, calls, repeat,
                   run_pc, run_snapshot, run_rules>>
    /\ UNCHANGED <<constructed, check_vars>>

\* return execution_results
RunReturn ==
    /\ run_pc = "running"
    /\ Len(execution_results)
         >= Len(RulesOfRun(run_rules, config, builtin_rules, remote_rules))
    /\ Returned(run_snapshot, execution_results)
    /\ run_pc' = "idle"
    /\ run_snapshot' = 0
    /\ run_rules' = <<>>
    /\ execution_results' = <<>>
    /\ UNCHANGED <<config, builtin_rules, remote_rules, last_remote_update, elapsed, repo,
                   sync_pc, fetch, before>>
    /\ UNCHANGED <<constructed, check_vars>>

\* The snapshots of the calls made while the cycle runs
SyncSnapshotIds == {2, 4}

SyncNext ==
    \/ LoadRemoteRulesStart
    \/ SkipFetch
    \/ FetchSucceeds
    \/ FetchFails
    \/ \E sid \in SyncSnapshotIds : RunStart(sid)
    \/ RunRule
    \/ RunReturn

SyncSpec == SyncInit /\ [][SyncNext]_vars

(***************************************************************************)
(* One condition check on its own: lines 443-456 of _check_conditions on    *)
(* a condition and a snapshot dict drawn from bounded sets                 *)
(***************************************************************************)
\* The longest generated list
MaxListLen == 2

\* The elements of the generated lists: None, a number, a bool, and
\* connectivity dicts with and without their keys.
ListElems ==
    { PyNone, PyInt(4), PyBool(TRUE), NetworkConnectivity(FALSE, PyNone),
      NetworkConnectivity(TRUE, PyInt(4)), PyDict(<<>>) }

GeneratedLists == UNION {[1..n -> ListElems] : n \in 0..MaxListLen}

\* Process lists around the target of sys_too_many_processes
LongLists == {Processes(n, 0) : n \in {199, 200, 201}}

NoneChars == <<"N", "o", "n", "e">>

Scalars ==
    { PyNone, PyInt(0), PyInt(3), PyFloat(95), PyBool(TRUE), PyStr(<<>>), PyStr(NoneChars),
      PyStr(<<"9", "5">>), PyDict(<<Entry("latency", PyInt(7))>>) }

\* What network.connectivity holds
Leaves == Scalars \cup {PyList(l) : l \in GeneratedLists \cup LongLists}

CheckData(leaf) == PyDict(<<Entry("network", PyDict(<<Entry("connectivity", leaf)>>))>>)

FieldPaths ==
    { <<"network", ".", "connectivity">>,
      <<"network", ".", "missing">>,
      <<"network", ".", "connectivity", ".", "latency">>,
      <<"network", ".", "connectivity", "[", "*", "]", ".", "latency">>,
      <<"network", ".", "connectivity", "[", "*", "]">>,
      <<"network", ".", "missing", "[", "*", "]", ".", "latency">>,
      <<>> }

Targets ==
    { PyNone, PyInt(0), PyInt(2), PyInt(3), PyInt(199), PyInt(200), PyBool(TRUE),
      PyStr(<<>>), PyStr(NoneChars), PyStr(<<"4">>) }

TargetOperators == {">", "<", ">=", "<=", "==", "!=", "contains", "count", "avg>", "matches"}

CheckOperators == {"all_false", "none_true"}

FieldChecks == {"is_reachable", "latency"}

\* The conditions: an operator with a target; a collection predicate with a
\* field_check, with an empty one, and with none; a condition with no operator.
Conditions ==
    {Cond(path, op, target) : path \in FieldPaths, op \in TargetOperators, target \in Targets}
    \cup {CondCheck(path, op, fc) : path \in FieldPaths, op \in CheckOperators, fc \in FieldChecks}
    \cup {PyDict(<<Entry("field", PyStr(path)), Entry("operator", S(op)),
                   Entry("field_check", PyStr(<<>>))>>) : path \in FieldPaths, op \in CheckOperators}
    \cup {PyDict(<<Entry("field", PyStr(path)), Entry("operator", S(op))>>) :
            path \in FieldPaths, op \in CheckOperators}
    \cup {PyDict(<<Entry("field", PyStr(path)), Entry("value", target)>>) :
            path \in FieldPaths, target \in {PyNone, PyInt(3)}}

\* The engine stands still while single conditions are checked.
NoEngine ==
    /\ constructed = "no"
    /\ config = [enable_builtin_rules |-> FALSE, enable_remote_rules |-> FALSE,
                 rules_update_interval |-> UpdateInterval,
                 rule_confidence_threshold |-> 800]
    /\ builtin_rules = <<>>
    /\ remote_rules = <<>>
    /\ last_remote_update = "none"
    /\ elapsed = 0
    /\ repo = NoRepo
    /\ sync_pc = "idle"
    /\ fetch = "none"
    /\ before = <<>>
    /\ NoRun
    /\ run = 0
    /\ results = <<>>
    /\ conditions_matched = <<>>
    /\ calls = <<>>
    /\ repeat = <<>>

CheckInit ==
    /\ NoEngine
    /\ check_pc = "ready"
    /\ check_data \in {CheckData(leaf) : leaf \in Leaves}
    /\ check_condition \in Conditions
    /\ field_value = PyNone
    /\ matched = FALSE

\* field_value = self._get_field_value(snapshot_dict, field)
\* matched = self._evaluate_condition(field_value, operator, value, field_check)
CheckStep ==
    /\ check_pc = "ready"
    /\ field_value' = ResolveField(check_condition, check_data)
    /\ matched' = EvaluateOn(check_condition, field_value')
    /\ check_pc' = "done"
    /\ UNCHANGED <<check_data, check_condition>>
    /\ UNCHANGED engine_vars

CheckNext == CheckStep

CheckSpec == CheckInit /\ [][CheckNext]_vars

(***************************************************************************)
(* Properties of one call of execute_rules (Spec)                          *)
(***************************************************************************)
Called == run # 0

\* The rules the call just made went through, in its order.
Ran == GetAllRules(config, builtin_rules, remote_rules)

\* The rules of the sources whose flag is on, in declaration order.
Declared ==
    (IF config.enable_builtin_rules THEN builtin_rules ELSE <<>>)
    \o (IF config.enable_remote_rules THEN remote_rules ELSE <<>>)

EnabledCount(rules) == Cardinality({i \in 1..Len(rules) : rules[i].enabled})

RuleIds(rules) == {rules[i].rule_id : i \in 1..Len(rules)}

\* Evaluating or acting on the rule of the i-th result raised.
RaisedIn(i) == ExecuteSingleRule(Ran[i], Snapshots[run], config).raised

ZeroResult(rule_id) ==
    [rule_id |-> rule_id, matched |-> FALSE, confidence |-> 0,
     evidence |-> <<>>, actions_taken |-> <<>>, issues_found |-> <<>>]

\* C1: a call of execute_rules returns one result per enabled rule of the
\* sources that are on: the list is as long as the number of those rules, the
\* i-th result is about the i-th of them, and a rule whose evaluation or
\* actions raise has the result with matched false, confidence 0.0 and empty
\* evidence, actions and issues, the results of the other rules being there.
C1_OneResultPerEnabledRule ==
    Called =>
        /\ Len(results) = EnabledCount(Declared)
        /\ \A i \in 1..Len(results) :
             /\ results[i].rule_id = Ran[i].rule_id
             /\ RaisedIn(i) => results[i] = ZeroResult(Ran[i].rule_id)

\* C1 witness: the first rule of the call raised and has the zero result, and
\* a rule after it has its matched result.
C1_Witness ==
    /\ Called
    /\ Len(results) > 1
    /\ RaisedIn(1)
    /\ results[1] = ZeroResult(Ran[1].rule_id)
    /\ \E j \in 2..Len(results) : results[j].matched /\ results[j].confidence > 0

\* C2: the i-th result carries the rule_id of the i-th enabled rule in
\* declaration order, built-in rules before remote rules; no result is about
\* a rule with enabled false, nor about a rule of a source whose flag is off.
C2_ResultsInDeclarationOrder ==
    Called =>
        /\ Len(results) = Len(SelectSeq(Declared, LAMBDA r : r.enabled))
        /\ \A i \in 1..Len(results) :
             /\ results[i].rule_id =
                  SelectSeq(Declared, LAMBDA r : r.enabled)[i].rule_id
             /\ results[i].rule_id \notin
                  RuleIds(SelectSeq(builtin_rules \o remote_rules, LAMBDA r : ~r.enabled))
             /\ ~config.enable_builtin_rules =>
                  results[i].rule_id \notin RuleIds(builtin_rules)
             /\ ~config.enable_remote_rules =>
                  results[i].rule_id \notin RuleIds(remote_rules)
        /\ \A i, j \in 1..Len(results) :
             (i < j /\ results[i].rule_id \in RuleIds(remote_rules))
                => results[j].rule_id \notin RuleIds(builtin_rules)

\* C2 witness: the built-in rules are loaded and their flag is off, the remote
\* rules hold a disabled rule before an enabled one, and the call returned
\* the results of the enabled remote rules only.
C2_Witness ==
    /\ Called
    /\ ~config.enable_builtin_rules
    /\ config.enable_remote_rules
    /\ Len(builtin_rules) > 0
    /\ Len(remote_rules) = 3
    /\ ~remote_rules[2].enabled
    /\ Len(results) = 2
    /\ results[2].rule_id = remote_rules[3].rule_id

\* C3: the condition list of a rule matches iff every one of its conditions
\* matches, each checked on its own; a rule with no condition matches on every
\* snapshot.  The flag is the result's, unless the rule raised.
C3_AllConditionsMatch ==
    Called =>
        \A i \in 1..Len(results) :
            /\ conditions_matched[i] <=>
                 \A k \in 1..Len(Ran[i].conditions) :
                     CheckCondition(Ran[i].conditions[k], Snapshots[run]).matched
            /\ Len(Ran[i].conditions) = 0 => conditions_matched[i]
            /\ ~RaisedIn(i) => results[i].matched = conditions_matched[i]

\* C3 witness: of the two conditions of a rule, the first matched and the
\* second did not, and the rule is unmatched; a rule with no condition is
\* matched in the same call.
C3_Witness ==
    /\ Called
    /\ \E i \in 1..Len(results) :
         /\ Len(Ran[i].conditions) = 2
         /\ CheckCondition(Ran[i].conditions[1], Snapshots[run]).matched
         /\ ~CheckCondition(Ran[i].conditions[2], Snapshots[run]).matched
         /\ ~results[i].matched
    /\ \E i \in 1..Len(results) :
         Len(Ran[i].conditions) = 0 /\ results[i].matched

\* C4: a rule whose conditions matched has had each of its actions executed
\* once, in declaration order, and has one actions_taken entry per action; an
\* unmatched rule has had no action executed and has empty actions_taken and
\* issues_found.
C4_ActionsOnceInOrder ==
    Called =>
        \A i \in 1..Len(results) :
            /\ conditions_matched[i] =>
                 /\ calls[i] = [k \in 1..Len(Ran[i].actions) |-> k]
                 /\ Len(results[i].actions_taken) = Len(Ran[i].actions)
            /\ ~conditions_matched[i] =>
                 /\ calls[i] = <<>>
                 /\ results[i].actions_taken = <<>>
                 /\ results[i].issues_found = <<>>
            /\ ~results[i].matched => calls[i] = <<>>

\* C5: the confidence of a result is 0.0 when the rule did not match; when it
\* matched it is min(1.0, base * 1.1) if the base confidence of the rule is
\* strictly over rule_confidence_threshold, and the base confidence otherwise
\* (a base equal to the threshold is not boosted).  In thousandths.
C5_ConfidenceOfResult ==
    Called =>
        \A i \in 1..Len(results) :
            /\ ~results[i].matched => results[i].confidence = 0
            /\ (results[i].matched /\ Ran[i].confidence > config.rule_confidence_threshold) =>
                 results[i].confidence =
                    (IF Ran[i].confidence * 11 < One * 10
                     THEN (Ran[i].confidence * 11) \div 10 ELSE One)
            /\ (results[i].matched /\ Ran[i].confidence <= config.rule_confidence_threshold) =>
                 results[i].confidence = Ran[i].confidence

\* C5 witness: in one call a matched rule with its base confidence on the
\* threshold reports the base, a matched rule over it reports the boost under
\* the cap, and an unmatched rule reports 0.0.
C5_Witness ==
    /\ Called
    /\ \E i \in 1..Len(results) :
         /\ results[i].matched
         /\ Ran[i].confidence = config.rule_confidence_threshold
         /\ results[i].confidence = Ran[i].confidence
    /\ \E i \in 1..Len(results) :
         /\ results[i].matched
         /\ Ran[i].confidence = 900
         /\ results[i].confidence = 990
    /\ \E i \in 1..Len(results) : ~results[i].matched /\ results[i].confidence = 0

Checked == check_pc = "done"

CheckedOperator == OpName(DictGet(check_condition, "operator", S("==")))

CheckedTarget == DictGet(check_condition, "value", PyNone)

CheckedField == DictGet(check_condition, "field", PyStr(<<>>)).v

\* C7: the count operator matches iff the resolved value is a list longer than
\* the (numeric) target: a target equal to the length does not match (length
\* 200 against 200 is unmatched, against 199 matched), and a value that is no
\* list, None included, never matches, whatever the target.
C7_CountStrictlyGreater ==
    (Checked /\ CheckedOperator = "count") =>
        /\ IsNumber(CheckedTarget) =>
             (matched <=> (field_value.t = "list"
                           /\ Len(field_value.v) > NumVal(CheckedTarget)))
        /\ field_value.t # "list" => ~matched
        /\ (field_value.t = "list" /\ IsNumber(CheckedTarget)
            /\ Len(field_value.v) = NumVal(CheckedTarget)) => ~matched
        /\ (field_value.t = "list" /\ Len(field_value.v) = 200) =>
             /\ CheckedTarget = PyInt(200) => ~matched
             /\ CheckedTarget = PyInt(199) => matched

\* C7 witness: a list of 200 processes counted against 199 has matched.
C7_Witness ==
    /\ Checked
    /\ CheckedOperator = "count"
    /\ field_value.t = "list"
    /\ Len(field_value.v) = 200
    /\ CheckedTarget = PyInt(199)
    /\ matched

\* The elements of a list that are numbers, None and the rest left out.
PresentNumbers(items) == SelectSeq(items, LAMBDA e : e.t \in {"int", "float", "bool"})

RECURSIVE Total(_)
Total(items) ==
    IF Len(items) = 0 THEN 0
    ELSE (IF items[1].t = "bool" THEN (IF items[1].v THEN 1 ELSE 0) ELSE items[1].v)
         + Total(Tail(items))

\* C8: avg> matches iff the mean of the numeric elements of the resolved list,
\* its None elements left out of sum and divisor, is strictly greater than the
\* (numeric) target; an empty list and a list with no number in it never match,
\* whatever the target.  (total / n > t is stated as total > t * n, n > 0.)
C8_AvgOverPresentNumbers ==
    (Checked /\ CheckedOperator = "avg>") =>
        /\ (field_value.t = "list" /\ IsNumber(CheckedTarget)) =>
             (matched <=>
                /\ Len(PresentNumbers(field_value.v)) > 0
                /\ Total(PresentNumbers(field_value.v))
                     > NumVal(CheckedTarget) * Len(PresentNumbers(field_value.v)))
        /\ (field_value.t = "list" /\ Len(PresentNumbers(field_value.v)) = 0) => ~matched
        /\ field_value.t # "list" => ~matched

\* C8 witness: a list holding None and a number has matched, on a mean that
\* the None elements would have pulled under the target.
C8_Witness ==
    /\ Checked
    /\ CheckedOperator = "avg>"
    /\ field_value = PyList(<<PyNone, PyInt(4)>>)
    /\ CheckedTarget = PyInt(3)
    /\ matched

\* C9: a condition whose field resolves to None (absent) never matches under
\* >, <, avg>, nor under == with a target that is not None.
C9_AbsentNeverMatches ==
    (Checked /\ field_value = PyNone) =>
        /\ CheckedOperator \in {">", "<", "avg>"} => ~matched
        /\ (CheckedOperator = "==" /\ CheckedTarget # PyNone) => ~matched

\* C9 witness: network.missing, absent from the snapshot, compared with < 3.
C9_Witness ==
    /\ Checked
    /\ CheckedField = <<"network", ".", "missing">>
    /\ field_value = PyNone
    /\ CheckedOperator = "<"
    /\ CheckedTarget = PyInt(3)
    /\ ~matched

\* C10: a contains condition whose field resolves to None (absent) never
\* matches, for any string target.
C10_ContainsAbsentNeverMatches ==
    (Checked /\ field_value = PyNone /\ CheckedOperator = "contains"
     /\ CheckedTarget.t = "str") => ~matched

CheckedFieldCheck == DictGet(check_condition, "field_check", PyNone)

\* The condition checked is a collection predicate with a field_check.
CheckedCollection(op) ==
    Checked /\ CheckedOperator = op /\ Truthy(CheckedFieldCheck)

IsMapping(item) == item.t = "dict"

Lacks(item, key) == \A i \in 1..Len(item.v) : item.v[i][1] # key

\* The sub-value of a mapping under a key it has is truthy.
SubValueTruthy(item, key) ==
    \E i \in 1..Len(item.v) : item.v[i][1] = key /\ Truthy(item.v[i][2])

\* C11: all_false with a field_check matches iff the resolved value is a list
\* of mappings in each of which the field_check sub-value is falsy; an element
\* that lacks the key counts as truthy and blocks the match.
C11_AllFalse ==
    CheckedCollection("all_false") =>
        /\ matched <=>
             /\ field_value.t = "list"
             /\ \A i \in 1..Len(field_value.v) :
                  /\ IsMapping(field_value.v[i])
                  /\ ~Lacks(field_value.v[i], CheckedFieldCheck.v)
                  /\ ~SubValueTruthy(field_value.v[i], CheckedFieldCheck.v)
        /\ (field_value.t = "list"
            /\ \E i \in 1..Len(field_value.v) :
                 IsMapping(field_value.v[i]) /\ Lacks(field_value.v[i], CheckedFieldCheck.v))
             => ~matched

\* C11 witness: connectivity = [{is_reachable: false}, {is_reachable: false}]
\* under all_false on is_reachable has matched.
C11_Witness ==
    /\ CheckedCollection("all_false")
    /\ CheckedField = <<"network", ".", "connectivity">>
    /\ CheckedFieldCheck = PyStr(<<"is_reachable">>)
    /\ field_value = PyList(<<NetworkConnectivity(FALSE, PyNone),
                              NetworkConnectivity(FALSE, PyNone)>>)
    /\ matched

\* The answer of a collection predicate on the value the check resolved.
Answer(op) == EvaluateCondition(field_value, S(op), PyNone, CheckedFieldCheck)

\* C12: none_true with a field_check matches iff the resolved value is a list
\* of mappings in none of which the field_check sub-value is truthy, a mapping
\* that lacks the key counting as not truthy; so wherever all_false matches
\* none_true matches, and the two differ only on a list holding an element
\* that lacks the key.
C12_NoneTrue ==
    /\ CheckedCollection("none_true") =>
         (matched <=>
            /\ field_value.t = "list"
            /\ \A i \in 1..Len(field_value.v) :
                 /\ IsMapping(field_value.v[i])
                 /\ ~SubValueTruthy(field_value.v[i], CheckedFieldCheck.v))
    /\ (CheckedCollection("none_true") \/ CheckedCollection("all_false")) =>
         /\ matched = Answer(CheckedOperator)
         /\ Answer("all_false") => Answer("none_true")
         /\ Answer("all_false") # Answer("none_true") =>
              /\ field_value.t = "list"
              /\ \E i \in 1..Len(field_value.v) :
                   IsMapping(field_value.v[i]) /\ Lacks(field_value.v[i], CheckedFieldCheck.v)

\* C12 witness: on a list with an element that has no is_reachable key,
\* none_true has matched where all_false does not.
C12_Witness ==
    /\ CheckedCollection("none_true")
    /\ CheckedFieldCheck = PyStr(<<"is_reachable">>)
    /\ field_value = PyList(<<NetworkConnectivity(FALSE, PyNone), PyDict(<<>>)>>)
    /\ matched
    /\ ~Answer("all_false")

(***************************************************************************)
(* Properties of the actions of one call of execute_rules (Spec)           *)
(***************************************************************************)
ActionType(action) == DictGet(action, "type", PyStr(<<>>))

\* The actions of a rule, by number, that are of a kind.
ActionsOfKind(rule, kind) ==
    SelectSeq([k \in 1..Len(rule.actions) |-> k],
              LAMBDA k : ActionType(rule.actions[k]) = S(kind))

\* The create_issue action gives DiagnosisIssue a string for each field it
\* takes from the action.
Creatable(action) ==
    \A key \in {"severity", "message", "recommendation"} :
        DictGet(action, key, PyStr(<<>>)).t = "str"

\* No action of the rule raises.
NoActionRaises(rule) ==
    \A k \in 1..Len(rule.actions) :
        ActionType(rule.actions[k]) = S("create_issue") => Creatable(rule.actions[k])

\* C13: an action that raises is a no-op for that action only: a rule whose
\* conditions matched has a matched result, each of its actions was executed,
\* and the issues of its create_issue actions that do not raise are returned.
C13_ActionFailureContained ==
    Called =>
        \A i \in 1..Len(results) :
            conditions_matched[i] =>
                /\ results[i].matched
                /\ calls[i] = [k \in 1..Len(Ran[i].actions) |-> k]
                /\ Len(results[i].issues_found) =
                     Len(SelectSeq(ActionsOfKind(Ran[i], "create_issue"),
                                   LAMBDA k : Creatable(Ran[i].actions[k])))

C15_IssueConfidenceAndSeverity ==
    Called =>
        /\ \A i \in 1..Len(results) :
             results[i].matched =>
                \A j \in 1..Len(results[i].issues_found) :
                    /\ results[i].issues_found[j].confidence = Ran[i].confidence
                    /\ results[i].issues_found[j].severity =
                         DictGet(Ran[i].actions[ActionsOfKind(Ran[i], "create_issue")[j]],
                                 "severity", S(Ran[i].severity))
        /\ (GetNestedValue(Snapshots[run], <<"hardware", ".", "cpu", ".", "usage_percent">>)
                = PyFloat(95)
            /\ config.enable_builtin_rules /\ builtin_rules # <<>>) =>
             /\ results[1].rule_id = "hw_cpu_high_usage"
             /\ results[1].matched
             /\ Len(results[1].issues_found) = 1
             /\ results[1].issues_found[1].severity = S("high")

\* C15 witness: a boosted result whose issue has the base confidence and the
\* severity of the action, which is not the rule's; and a result whose issue
\* has the severity of the rule, the action having none.
C15_Witness ==
    /\ Called
    /\ \E i \in 1..Len(results) :
         /\ results[i].matched
         /\ results[i].confidence > Ran[i].confidence
         /\ Len(results[i].issues_found) = 1
         /\ results[i].issues_found[1].confidence = Ran[i].confidence
         /\ results[i].issues_found[1].severity = S("high")
         /\ Ran[i].severity = "low"
    /\ \E i \in 1..Len(results) :
         /\ results[i].matched
         /\ Len(results[i].issues_found) = 1
         /\ Len(Ran[i].actions) = 2
         /\ ~HasKey(Ran[i].actions[2], <<"severity">>)
         /\ results[i].issues_found[1].severity = S(Ran[i].severity)

(***************************************************************************)
(* Properties of a cycle of _load_remote_rules (SyncSpec)                  *)
(***************************************************************************)
\* The cycle has ended, and its fetch failed: a status other than 0, or an
\* exception.
FetchFailed == sync_pc = "done" /\ fetch \in {"status", "raised"}

\* The cycle has ended and has loaded the cache.
CacheLoaded == sync_pc = "done" /\ repo.exists

Range(seq) == {seq[i] : i \in 1..Len(seq)}

\* The records of the rule files of a cache, whatever their files are like.
RecordsIn(cache) ==
    UNION {Range(cache.files[f].records) : f \in 1..Len(cache.files)}

\* C16, as stated: after a cycle whose fetch failed, the engine holds the
\* remote rules it held before the cycle.
C16_FailedFetchKeepsRules ==
    FetchFailed => remote_rules = before[1].remote_rules

\* C16, amended: after a cycle whose fetch failed, the cache directory and the
\* timestamp are as before the cycle, and the engine holds the rules parsed
\* from that cache (the rules it held only if there is no cache directory); a
\* call of execute_rules that returns after the failure has its results.
C16_FailedFetchLoadsCache ==
    FetchFailed =>
        /\ repo = before[1].repo
        /\ last_remote_update = before[1].last_remote_update
        /\ remote_rules = IF before[1].repo.exists
                          THEN ParseRuleFiles(before[1].repo.files)
                          ELSE before[1].remote_rules
        /\ Called =>
             Len(results) \in
                {Len(GetAllRules(config, builtin_rules, remote_rules)),
                 Len(GetAllRules(config, builtin_rules, before[1].remote_rules))}

\* C16 witness: the fetch raised, the engine holds the rules of the cache and
\* no longer those it held, and a call of execute_rules has returned results.
C16_Witness ==
    /\ FetchFailed
    /\ fetch = "raised"
    /\ repo.exists
    /\ before[1].remote_rules # <<>>
    /\ remote_rules # before[1].remote_rules
    /\ Called
    /\ Len(results) > 0

\* C17: after a cycle that loaded the cache the remote rules are the rules of
\* the files now in the cache directory and no others: every rule held is a
\* record of a cached file, every record of a file with valid records only is
\* held, and a rule held before that is in no cached file is held no more.
C17_WholesaleReplacement ==
    CacheLoaded =>
        /\ Range(remote_rules) \subseteq RecordsIn(repo)
        /\ \A f \in 1..Len(repo.files) :
             (repo.files[f].kind \in {"list", "rules"}
              /\ BadRecord \notin Range(repo.files[f].records))
                => Range(repo.files[f].records) \subseteq Range(remote_rules)
        /\ \A rule \in Range(before[1].remote_rules) :
             rule \notin RecordsIn(repo) => rule \notin Range(remote_rules)
        /\ Len(remote_rules) <= Len(ParseRuleFiles(repo.files))

\* C17 witness: a rule held before the cycle is in no cached file and is held
\* no more, while the rules of the cached files are.
C17_Witness ==
    /\ CacheLoaded
    /\ remote_rules # <<>>
    /\ \E rule \in Range(before[1].remote_rules) :
         rule \notin RecordsIn(repo) /\ rule \notin Range(remote_rules)

\* A rule file that parses and holds valid records only.
WellFormed(file) ==
    file.kind \in {"list", "rules"} /\ BadRecord \notin Range(file.records)

RECURSIVE RulesOfWellFormed(_)
RulesOfWellFormed(files) ==
    IF Len(files) = 0 THEN <<>>
    ELSE (IF WellFormed(files[1]) THEN files[1].records ELSE <<>>)
         \o RulesOfWellFormed(Tail(files))

\* C18: a malformed rule file, one that does not parse or that holds a record
\* that is no valid rule, adds no rule to the loaded set, and the rules of the
\* other files are loaded: the set is the rules of the well-formed files.
C18_MalformedFileAddsNothing ==
    CacheLoaded => remote_rules = RulesOfWellFormed(repo.files)

\* C19: a call of execute_rules that returns while a cycle replaces the rules
\* has gone through the rules held before the cycle or through the rules held
\* after it, never part of each: its results are, rule by rule, those of one
\* of the two merged lists.
ResultsOf(rule_list) ==
    [i \in 1..Len(rule_list) |-> RuleOutcome(rule_list[i], Snapshots[run], config).result]

C19_OldOrNewRules ==
    Called =>
        \/ results = ResultsOf(GetAllRules(config, builtin_rules, remote_rules))
        \/ /\ before # <<>>
           /\ results = ResultsOf(GetAllRules(config, builtin_rules, before[1].remote_rules))

\* C19 witness: the call took its rules before the cycle replaced them and
\* returned after: its results are those of the rules held before, which are
\* not the rules held now.
C19_Witness ==
    /\ Called
    /\ sync_pc = "done"
    /\ fetch = "ok"
    /\ Len(results) > 1
    /\ results = ResultsOf(GetAllRules(config, builtin_rules, before[1].remote_rules))
    /\ results # ResultsOf(GetAllRules(config, builtin_rules, remote_rules))

(***************************************************************************)
(* The cycles of an engine over its lifetime (FairSpec)                    *)
(***************************************************************************)
\* More than rules_update_interval has passed since the last update.
UpdateDue ==
    /\ config.enable_remote_rules
    /\ last_remote_update = "set"
    /\ elapsed > config.rules_update_interval

\* C20: with remote rules enabled, whenever more than rules_update_interval
\* has passed since the last successful update, a fetch of the remote
\* repository eventually takes place.
C20_RefreshesPeriodically == UpdateDue ~> (sync_pc = "fetching")

(***************************************************************************)
(* Properties of the rules the engine holds (SyncSpec)                     *)
(***************************************************************************)
Held == builtin_rules \o remote_rules

\* C21: no two rules the engine holds, built-in and remote together, share a
\* rule_id, and no two results of one call carry the same rule_id.
C21_RuleIdsUnique ==
    /\ \A i, j \in 1..Len(Held) : i # j => Held[i].rule_id # Held[j].rule_id
    /\ \A i, j \in 1..Len(results) : i # j => results[i].rule_id # results[j].rule_id

Severities == {"low", "medium", "high", "critical"}

\* C22: every rule the engine holds has a severity among low, medium, high
\* and critical and a base confidence in [0, 1], and every result and every
\* issue of a call has a confidence in [0, 1].
C22_SeverityAndConfidenceInRange ==
    /\ \A i \in 1..Len(Held) :
         /\ Held[i].severity \in Severities
         /\ 0 <= Held[i].confidence /\ Held[i].confidence <= One
    /\ \A i \in 1..Len(results) :
         /\ 0 <= results[i].confidence /\ results[i].confidence <= One
         /\ \A j \in 1..Len(results[i].issues_found) :
              /\ 0 <= results[i].issues_found[j].confidence
              /\ results[i].issues_found[j].confidence <= One

(***************************************************************************)
(* The engine from before its construction (BuildSpec)                     *)
(***************************************************************************)
\* C23: no operation of the engine raises to its caller: the construction of
\* the engine, a cycle of _load_remote_rules and a call of execute_rules all
\* complete, for every configuration, cache, fetch outcome and snapshot.
C23_NothingRaises ==
    /\ constructed # "raised"
    /\ Called => Len(results) = Len(Ran)

Comparisons == {">", "<", ">=", "<="}

CollectionOperators == {"count", "all_false", "none_true", "avg>"}

KnownOperators == Comparisons \cup {"==", "!=", "contains"} \cup CollectionOperators

\* A string that is no decimal numeral, signed or not.
NonNumeral(chars) ==
    /\ ~IsDigits(chars)
    /\ ~(Len(chars) > 1 /\ chars[1] = "-" /\ IsDigits(Tail(chars)))

\* A value float() has no number for: None, a list, a dict, a string that is
\* no numeral.
NonNumeric(x) ==
    \/ x.t \in {"none", "list", "dict"}
    \/ x.t = "str" /\ NonNumeral(x.v)

C24_UnknownOperatorChecked ==
    /\ Checked
    /\ CheckedOperator = "matches"
    /\ field_value = PyInt(3)
    /\ ~matched

\* The condition checked has a path with a wildcard.
CheckedWildcard == Checked /\ Contains(CheckedField, Wildcard)

\* What the part of the path before the wildcard resolves to.
CheckedBase == GetNestedValue(check_data, BasePath(CheckedField))

\* The part of the path after the wildcard, its leading dot removed.
CheckedSub == StripDot(AfterWildcard(CheckedField))

SequenceOfMappings(x) ==
    x.t = "list" /\ \A i \in 1..Len(x.v) : IsMapping(x.v[i])

\* C25: a path base[*]sub resolves to the empty list unless base resolves to a
\* list of mappings (so also when the list holds an element that is no
\* mapping); for a list of mappings it resolves to a list of the same length
\* whose i-th entry is sub resolved inside the i-th element, the element
\* itself when sub is empty, None where sub is missing.
C25_WildcardPositional ==
    CheckedWildcard =>
        IF SequenceOfMappings(CheckedBase)
        THEN /\ field_value.t = "list"
             /\ Len(field_value.v) = Len(CheckedBase.v)
             /\ \A i \in 1..Len(CheckedBase.v) :
                  field_value.v[i] = IF Len(CheckedSub) = 0 THEN CheckedBase.v[i]
                                     ELSE GetNestedValue(CheckedBase.v[i], CheckedSub)
        ELSE field_value = PyList(<<>>)

\* What the snapshot checked holds under network.connectivity.
CheckedLeaf == check_data.v[1][2].v[1][2]

\* C26: a path without a wildcard resolves to the value reached by one lookup
\* per dot-separated key while every value on the way is a mapping holding
\* the next key, and to None otherwise: for a missing key (network.missing,
\* the empty path) and for a value on the way that is a scalar, None or a list
\* (network.connectivity.latency over such a connectivity).  Resolution
\* always ends with a value.
C26_PlainPathResolution ==
    (Checked /\ ~Contains(CheckedField, Wildcard)) =>
        /\ CheckedField = <<"network", ".", "connectivity">> =>
             field_value = CheckedLeaf
        /\ CheckedField = <<"network", ".", "missing">> =>
             field_value = PyNone
        /\ CheckedField = <<>> =>
             field_value = PyNone
        /\ CheckedField = <<"network", ".", "connectivity", ".", "latency">> =>
             field_value = IF IsMapping(CheckedLeaf) /\ ~Lacks(CheckedLeaf, <<"latency">>)
                           THEN DictGet(CheckedLeaf, "latency", PyNone)
                           ELSE PyNone
        /\ CheckedField \in { <<"network", ".", "connectivity">>,
                              <<"network", ".", "missing">>,
                              <<"network", ".", "connectivity", ".", "latency">>,
                              <<>> }

\* C26 witness: network.connectivity.latency over a connectivity that is a
\* mapping with latency 7 resolves to 7.
C26_Witness ==
    /\ Checked
    /\ CheckedField = <<"network", ".", "connectivity", ".", "latency">>
    /\ CheckedLeaf = PyDict(<<Entry("latency", PyInt(7))>>)
    /\ field_value = PyInt(7)

\* C27: the evidence of the i-th result holds one entry per condition of the
\* i-th rule, in the order of the conditions, the k-th entry naming the field,
\* operator and value of the k-th condition, whether that condition matched
\* or not; an unmatched condition does not end the evaluation.
C27_EvidencePerCondition ==
    Called =>
        \A i \in 1..Len(results) :
            /\ Len(results[i].evidence) = Len(Ran[i].conditions)
            /\ \A k \in 1..Len(results[i].evidence) :
                 /\ results[i].evidence[k].said = Said(Ran[i].conditions[k])
                 /\ results[i].evidence[k].outcome =
                      IF CheckCondition(Ran[i].conditions[k], Snapshots[run]).matched
                      THEN "matched" ELSE "unmatched"

\* The rule of the i-th result has a condition, and its evidence is empty.
EvidenceLost(i) ==
    /\ Len(Ran[i].conditions) > 0
    /\ Len(results[i].evidence) = 0

\* The evidence is there for every rule that did not raise, an unmatched
\* first condition followed by a matched second one included.
EvidenceUnlessRaised ==
    Called =>
        \A i \in 1..Len(results) :
            /\ EvidenceLost(i) => RaisedIn(i)
            /\ ~RaisedIn(i) => Len(results[i].evidence) = Len(Ran[i].conditions)

\* A step that begins a cycle of _load_remote_rules.
CycleBegins == sync_pc = "scheduled" /\ sync_pc' # "scheduled"

\* C28: the timestamp changes only in the step in which a fetch ends with
\* status 0, which sets it; a fetch that fails or is skipped leaves it as it
\* was.  So a cycle beginning with no timestamp attempts a fetch, and a cycle
\* beginning with one attempts a fetch only when strictly more than
\* rules_update_interval has passed since, skipping it otherwise.
C28_TimestampOnlyOnSuccess ==
    [][ /\ last_remote_update' # last_remote_update =>
             (sync_pc = "fetching" /\ fetch' = "ok")
        /\ (sync_pc = "fetching" /\ fetch' = "ok") =>
             (last_remote_update' = "set" /\ elapsed' = 0)
        /\ (sync_pc' = "done" /\ fetch' \in {"status", "raised", "skipped"}) =>
             (last_remote_update' = last_remote_update /\ elapsed' = elapsed)
        /\ (CycleBegins /\ last_remote_update = "none") => sync_pc' = "fetching"
        /\ (CycleBegins /\ last_remote_update = "set") =>
             IF elapsed > config.rules_update_interval
             THEN sync_pc' = "fetching"
             ELSE sync_pc' = "done" /\ fetch' = "skipped"
      ]_vars

\* C28 witness: a cycle that began exactly rules_update_interval after the
\* last success has skipped the fetch, and the timestamp is as it was.
C28_Witness ==
    /\ sync_pc = "done"
    /\ fetch = "skipped"
    /\ before[1].last_remote_update = "set"
    /\ last_remote_update = "set"
    /\ elapsed = config.rules_update_interval

\* A cycle that began with no timestamp has fetched and failed, and there is
\* still no timestamp.
C28_FailedFetchLeavesNoTimestamp ==
    /\ sync_pc = "done"
    /\ fetch \in {"status", "raised"}
    /\ last_remote_update = "none"

CycleEnded == sync_pc = "done"

\* C29: a cycle that has ended has loaded the cache after its fetch step,
\* whether the fetch was skipped, succeeded, ended with a non-zero status or
\* raised: the engine holds the rules of the files the cache directory holds
\* then (the fetched ones after a success), and the rules it held only when
\* there is no cache directory to load.
C29_EveryCycleReloadsCache ==
    CycleEnded =>
        /\ fetch \in {"skipped", "ok", "status", "raised"}
        /\ repo.exists => remote_rules = ParseRuleFiles(repo.files)
        /\ ~repo.exists => remote_rules = before[1].remote_rules
        /\ fetch # "ok" => repo = before[1].repo

\* C29 witness: the fetch was skipped and the engine holds the rules of the
\* cache, which are not the rules it held when the cycle began.
C29_Witness ==
    /\ CycleEnded
    /\ fetch = "skipped"
    /\ repo.exists
    /\ remote_rules = ParseRuleFiles(repo.files)
    /\ remote_rules # before[1].remote_rules

\* The same after a fetch that succeeded.
C29_ReloadedAfterSuccess ==
    /\ CycleEnded
    /\ fetch = "ok"
    /\ repo # before[1].repo
    /\ remote_rules = ParseRuleFiles(repo.files)
    /\ remote_rules # before[1].remote_rules

\* The condition applies > < >= <= to a path with a wildcard.
ScalarOverWildcard(condition) ==
    /\ DictGet(condition, "field", PyStr(<<>>)).t = "str"
    /\ Contains(DictGet(condition, "field", PyStr(<<>>)).v, Wildcard)
    /\ DictGet(condition, "operator", S("==")).t = "str"
    /\ OpName(DictGet(condition, "operator", S("=="))) \in Comparisons

ComparisonOverWildcardUnmatched ==
    (CheckedWildcard /\ CheckedOperator \in Comparisons) =>
        (field_value.t = "list" /\ ~matched)

=============================================================================
